---- MODULE Spec2Model ----
(***************************************************************************)
(* DocumentNode (src/packages/superscript/SuperscriptCommand.js, lines     *)
(* 54-329): construction, structural queries (hasParent, getParent,        *)
(* getRoot, the child queries), category queries, the transient highlight  *)
(* flag (setHighlighted) and property-change event routing (on, off,       *)
(* connect, disconnect, _onPropertyChange) over the owning Document's      *)
(* "path" event proxy and the node's own event emitter.                    *)
(*                                                                         *)
(* The Document (get, getEventProxy), the path event proxy, the node's     *)
(* base class (DataNode / EventEmitter: the constructor, on, off, emit)    *)
(* and the type schemas are required by DocumentNode but are not among the *)
(* source files; they are modelled from the design specification,          *)
(* sections 2, 3, 4.1, 4.3, 5, 6 and 7.                                    *)
(***************************************************************************)
EXTENDS Naturals, Sequences, FiniteSets, TLC

VARIABLES
  props,             \* node id -> the id and type the node was constructed with
  document,          \* node id -> this.document
  parent,            \* node id -> value of the node's `parent` property
  pathSubs,          \* the Document's "path" proxy: subscriptions in subscription order
  localSubs,         \* node id -> the node's own listeners in subscription order
  highlighted,       \* node id -> this.highlighted
  highlightedScope,  \* node id -> this.highlightedScope
  delivered,         \* listener invocations made by the last operation, in order
  emitted,           \* this.emit(...) calls made by the last operation, in order
  quiet,             \* history: <<node, ctx>> such that node.off(ctx) ran and ctx has not subscribed since
  grPc,              \* getRoot(): "idle" | "loop" (at the while test, line 181)
  grNode,            \* getRoot(): the local variable `node`
  grVisited,         \* history: the nodes getRoot() has left behind in this call
  ret,               \* the last call when it was a query, a construction or setHighlighted, and its outcome
  pass,              \* the notification pass in progress, when listeners are invoked one at a time
  hist               \* history: the last on / off call and the subscriptions it found

vars == <<props, document, parent, pathSubs, localSubs, highlighted, highlightedScope,
          delivered, emitted, quiet, grPc, grNode, grVisited, ret, pass, hist>>

eventVars == <<pathSubs, localSubs, highlighted, highlightedScope, delivered, emitted, quiet>>
queryVars == <<grPc, grNode, grVisited>>

----------------------------------------------------------------------------
(* Bounds of the model *)

MaxSubs == 3       \* subscriptions held at once, the proxy's and the nodes' together
MaxLocal == 2      \* subscriptions held at once by the nodes' own emitters

----------------------------------------------------------------------------
(* JavaScript values *)

Undefined == "undefined"
JsTrue == "true"
JsFalse == "false"
JsNull == "null"

(* The document: three nodes; "nx" is an id the Document does not hold. *)
NodeIds == {"n1", "n2", "n3"}
MissingId == "nx"
EventNodes == {"n1", "n2"}

NodeType == [n \in NodeIds |-> IF n = "n2" THEN "figure" ELSE "paragraph"]

(* constructor.schema: the declared properties of each node type. *)
Schema == [t \in {"paragraph", "figure"} |->
             IF t = "paragraph" THEN {"content"} ELSE {"title", "caption"}]

Handlers == {"h1", "h2"}
Contexts == {"c1", "c2"}
(* A listener is a handler with the context that owns the subscription: two
   handlers of one context, and one handler shared by two contexts. *)
Listeners == (Handlers \X Contexts) \ {<<"h2", "c2">>}
Scopes == {"scopeA", "scopeB"}
Flags == {JsTrue, JsFalse}
EventNames == {"content:changed", "title:changed", "foo:changed", "highlighted",
               "x-content:changed", "content:changed:late"}
Changes == {<<"a", "ab">>}

(* Document.get(id): the node, or undefined when the Document holds no such id. *)
DocGet(id) == IF id \in NodeIds THEN id ELSE Undefined

(* The one Document of the model *)
TheDocument == "doc"

----------------------------------------------------------------------------
(* The record of a call: what was called on which node with which arguments, and
   how it ended ("return" with a value, "throw" with an error, "running"). *)
Call(op, n, args, kind, v) == [op |-> op, node |-> n, args |-> args, kind |-> kind, value |-> v]
Returned(op, n, args, v) == Call(op, n, args, "return", v)
Thrown(op, n, args, err) == Call(op, n, args, "throw", err)
NoCall == Call("none", Undefined, <<>>, "none", Undefined)

(* No notification pass is in progress; no on / off call is on record. *)
NoPass == [phase |-> "idle"]
NoHist == [op |-> "none"]

----------------------------------------------------------------------------
(* Path event proxy of the Document: subscriptions keyed by (nodeId, propertyName) *)

PathProxyOn(subs, path, handler, ctx) ==
  Append(subs, [path |-> path, handler |-> handler, ctx |-> ctx])

PathProxyOff(subs, ctx, path, handler) ==
  SelectSeq(subs, LAMBDA s : ~(s.path = path /\ s.handler = handler /\ s.ctx = ctx))

PathProxyOffAll(subs, ctx) ==
  SelectSeq(subs, LAMBDA s : s.ctx # ctx)

Invocation(via, n, name, s, args) ==
  [via |-> via, node |-> n, name |-> name, handler |-> s.handler, ctx |-> s.ctx, args |-> args]

RECURSIVE MapSubs(_, _, _, _, _)
MapSubs(subs, via, n, name, args) ==
  IF subs = <<>> THEN <<>>
  ELSE <<Invocation(via, n, name, Head(subs), args)>> \o MapSubs(Tail(subs), via, n, name, args)

(* A dispatch that goes by the node alone, whatever the property *)
PathProxyDispatch_WholeNode(subs, path, args) ==
  MapSubs(SelectSeq(subs, LAMBDA s : s.path[1] = path[1]), "path", path[1], path[2], args)

(* The proxy notifies the subscribers of exactly this path, in subscription order. *)
PathProxyDispatch(subs, path, args) ==
  MapSubs(SelectSeq(subs, LAMBDA s : s.path = path), "path", path[1], path[2], args)

(* The node's own event emitter (DataNode's on / off / emit) *)

EmitterOn(ls, eventName, handler, ctx) ==
  Append(ls, [event |-> eventName, handler |-> handler, ctx |-> ctx])

EmitterOff(ls, ctx, eventName, handler) ==
  IF eventName = ""
  THEN SelectSeq(ls, LAMBDA s : s.ctx # ctx)
  ELSE SelectSeq(ls, LAMBDA s : ~(s.event = eventName /\ s.handler = handler /\ s.ctx = ctx))

EmitterEmit(ls, n, eventName, args) ==
  MapSubs(SelectSeq(ls, LAMBDA s : s.event = eventName), "local", n, eventName, args)

----------------------------------------------------------------------------
(* DocumentNode: event routing *)

WordChars ==
  {"a", "b", "c", "d", "e", "f", "g", "h", "i", "j", "k", "l", "m",
   "n", "o", "p", "q", "r", "s", "t", "u", "v", "w", "x", "y", "z",
   "A", "B", "C", "D", "E", "F", "G", "H", "I", "J", "K", "L", "M",
   "N", "O", "P", "Q", "R", "S", "T", "U", "V", "W", "X", "Y", "Z",
   "0", "1", "2", "3", "4", "5", "6", "7", "8", "9", "_"}

ChangedSuffix == ":changed"
NoMatch == ""

(* [a-zA-Z_0-9]+ matches eventName[i..j] and ":changed" follows it *)
MatchesAt(eventName, i, j) ==
  /\ \A k \in i..j : SubSeq(eventName, k, k) \in WordChars
  /\ j + Len(ChangedSuffix) <= Len(eventName)
  /\ SubSeq(eventName, j + 1, j + Len(ChangedSuffix)) = ChangedSuffix

MatchStarts(eventName) ==
  {i \in 1..Len(eventName) : \E j \in i..Len(eventName) : MatchesAt(eventName, i, j)}

(* /([a-zA-Z_0-9]+):changed/.exec(eventName): the capture group of the leftmost
   match, NoMatch for null.  The pattern is not anchored. *)
_matchPropertyEvent(eventName) ==
  IF MatchStarts(eventName) = {} THEN NoMatch
  ELSE LET i == CHOOSE a \in MatchStarts(eventName) : \A b \in MatchStarts(eventName) : a <= b
           j == CHOOSE b \in i..Len(eventName) : MatchesAt(eventName, i, b)
       IN SubSeq(eventName, i, j)

(* _matchPropertyEvent over the event names in use, computed once *)
PropertyOfEvent == [e \in EventNames |-> _matchPropertyEvent(e)]

TotalLocal == Len(localSubs["n1"]) + Len(localSubs["n2"])
TotalSubs == Len(pathSubs) + TotalLocal

(* on() with the schema test inverted *)
OnPathEntries_InvertedSchemaTest(n, eventName, handler, ctx) ==
  LET propertyName == PropertyOfEvent[eventName] IN
  IF propertyName # NoMatch /\ propertyName \notin Schema[NodeType[n]]
  THEN <<[path |-> <<n, propertyName>>, handler |-> handler, ctx |-> ctx]>>
  ELSE <<>>

(* The path-proxy subscriptions on() makes (lines 203-211) *)
OnPathEntries(n, eventName, handler, ctx) ==
  LET propertyName == PropertyOfEvent[eventName] IN
  IF propertyName # NoMatch /\ propertyName \in Schema[NodeType[n]]
  THEN <<[path |-> <<n, propertyName>>, handler |-> handler, ctx |-> ctx]>>
  ELSE <<>>

(* on(eventName, handler, ctx) (lines 202-213): the proxy subscription, if any,
   then _super.on *)
on(n, eventName, handler, ctx) ==
  /\ grPc = "idle" /\ pass = NoPass
  /\ TotalSubs + Len(OnPathEntries(n, eventName, handler, ctx)) < MaxSubs
  /\ TotalLocal < MaxLocal
  /\ pathSubs' = pathSubs \o OnPathEntries(n, eventName, handler, ctx)
  /\ localSubs' = [localSubs EXCEPT ![n] = EmitterOn(@, eventName, handler, ctx)]
  /\ delivered' = <<>>
  /\ emitted' = <<>>
  /\ quiet' = {q \in quiet : q[2] # ctx}
  /\ ret' = NoCall
  /\ UNCHANGED <<props, document, parent, pass, highlighted, highlightedScope, queryVars>>

(* off() that leaves the proxy alone when no event name is given *)
OffPathSubs_KeepsProxy(subs, n, ctx, eventName, handler) ==
  LET match == IF eventName = "" THEN NoMatch ELSE PropertyOfEvent[eventName]
  IN IF match # NoMatch
     THEN PathProxyOff(subs, ctx, <<n, match>>, handler)
     ELSE subs

(* off() whose call without event name clears the paths of this node only *)
OffPathSubs_ThisNodeOnly(subs, n, ctx, eventName, handler) ==
  LET afterAll == IF eventName = ""
                  THEN SelectSeq(subs, LAMBDA s : ~(s.ctx = ctx /\ s.path[1] = n))
                  ELSE subs
      match == IF eventName = "" THEN NoMatch ELSE PropertyOfEvent[eventName]
  IN IF match # NoMatch
     THEN PathProxyOff(afterAll, ctx, <<n, match>>, handler)
     ELSE afterAll

(* The path proxy's subscriptions after off() (lines 216-227) *)
OffPathSubs(subs, n, ctx, eventName, handler) ==
  LET afterAll == IF eventName = "" THEN PathProxyOffAll(subs, ctx) ELSE subs
      match == IF eventName = "" THEN NoMatch ELSE PropertyOfEvent[eventName]
  IN IF match # NoMatch
     THEN PathProxyOff(afterAll, ctx, <<n, match>>, handler)
     ELSE afterAll

(* off() that ends in _super.on.apply(this, arguments), as on() does *)
off_SuperOn(n, ctx, eventName, handler) ==
  /\ grPc = "idle" /\ pass = NoPass
  /\ pathSubs' = OffPathSubs(pathSubs, n, ctx, eventName, handler)
  /\ localSubs' = [localSubs EXCEPT ![n] = EmitterOn(@, ctx, eventName, handler)]
  /\ delivered' = <<>>
  /\ emitted' = <<>>
  /\ quiet' = IF eventName = "" THEN quiet \cup {<<n, ctx>>} ELSE quiet
  /\ ret' = NoCall
  /\ UNCHANGED <<props, document, parent, pass, highlighted, highlightedScope, queryVars>>

(* off(ctx, eventName, handler) (lines 215-229); eventName "" stands for a call
   off(ctx) without event name (handler is then undefined) *)
off(n, ctx, eventName, handler) ==
  /\ grPc = "idle" /\ pass = NoPass
  /\ pathSubs' = OffPathSubs(pathSubs, n, ctx, eventName, handler)
  /\ localSubs' = [localSubs EXCEPT ![n] = EmitterOff(@, ctx, eventName, handler)]
  /\ delivered' = <<>>
  /\ emitted' = <<>>
  /\ quiet' = IF eventName = "" THEN quiet \cup {<<n, ctx>>} ELSE quiet
  /\ ret' = NoCall
  /\ UNCHANGED <<props, document, parent, pass, highlighted, highlightedScope, queryVars>>

(* connect(ctx, handlers) (lines 233-238): this.on(name, func, ctx) for each entry
   of handlers, in order; handlers is a sequence of <<name, func>> *)
RECURSIVE ConnectPathEntries(_, _, _)
ConnectPathEntries(n, ctx, handlers) ==
  IF handlers = <<>> THEN <<>>
  ELSE OnPathEntries(n, Head(handlers)[1], Head(handlers)[2], ctx)
         \o ConnectPathEntries(n, ctx, Tail(handlers))

RECURSIVE ConnectLocal(_, _, _)
ConnectLocal(ls, ctx, handlers) ==
  IF handlers = <<>> THEN ls
  ELSE ConnectLocal(EmitterOn(ls, Head(handlers)[1], Head(handlers)[2], ctx),
                    ctx, Tail(handlers))

connect(n, ctx, handlers) ==
  /\ grPc = "idle" /\ pass = NoPass
  /\ TotalSubs + Len(ConnectPathEntries(n, ctx, handlers)) + Len(handlers) <= MaxSubs
  /\ TotalLocal + Len(handlers) <= MaxLocal
  /\ pathSubs' = pathSubs \o ConnectPathEntries(n, ctx, handlers)
  /\ localSubs' = [localSubs EXCEPT ![n] = ConnectLocal(@, ctx, handlers)]
  /\ delivered' = <<>>
  /\ emitted' = <<>>
  /\ quiet' = {q \in quiet : q[2] # ctx}
  /\ ret' = NoCall
  /\ UNCHANGED <<props, document, parent, pass, highlighted, highlightedScope, queryVars>>

(* disconnect that also drops the node's reference to its document *)
disconnect_Detaches(n, ctx) ==
  /\ grPc = "idle" /\ pass = NoPass
  /\ pathSubs' = OffPathSubs(pathSubs, n, ctx, "", Undefined)
  /\ localSubs' = [localSubs EXCEPT ![n] = EmitterOff(@, ctx, "", Undefined)]
  /\ delivered' = <<>>
  /\ emitted' = <<>>
  /\ quiet' = quiet \cup {<<n, ctx>>}
  /\ ret' = NoCall
  /\ document' = [document EXCEPT ![n] = Undefined]
  /\ UNCHANGED <<props, parent, pass, highlighted, highlightedScope, queryVars>>

(* disconnect(ctx) (lines 240-243): this.off(ctx) *)
disconnect(n, ctx) == off(n, ctx, "", Undefined)

(* A call this.emit(eventName, args...) on node n *)
Emit(n, eventName, args) == [node |-> n, event |-> eventName, args |-> args]

(* _onPropertyChange that slices its arguments from 0: the property name stays
   among the arguments of the event *)
_onPropertyChange_SliceFromZero(n, propertyName, args) ==
  Emit(n, propertyName \o ChangedSuffix, <<propertyName>> \o args)

(* _onPropertyChange(propertyName, args...): the emit it makes (lines 245-249) *)
_onPropertyChange(n, propertyName, args) ==
  Emit(n, propertyName \o ChangedSuffix, args)

(* The listener invocations a sequence of emits causes *)
RECURSIVE Deliver(_, _)
Deliver(ls, emits) ==
  IF emits = <<>> THEN <<>>
  ELSE LET e == Head(emits) IN
       EmitterEmit(ls[e.node], e.node, e.event, e.args) \o Deliver(ls, Tail(emits))

(* A mutation of the declared property (n, propertyName): the Document's path
   proxy notifies the path's subscribers, and the node re-emits the change
   through _onPropertyChange (design specification, sections 2 and 4.3). *)
Mutate(n, propertyName, args) ==
  /\ grPc = "idle" /\ pass = NoPass
  /\ propertyName \in Schema[NodeType[n]]
  /\ emitted' = <<_onPropertyChange(n, propertyName, args)>>
  /\ delivered' = PathProxyDispatch(pathSubs, <<n, propertyName>>, args)
                    \o Deliver(localSubs, emitted')
  /\ ret' = NoCall
  /\ UNCHANGED <<props, document, parent, pass, pathSubs, localSubs, highlighted, highlightedScope, quiet, queryVars>>

(* The same mutation with the listeners invoked one at a time, each free to call
   on and off of the node from inside its callback.  The proxy notifies first, then
   the node emits; a pass goes through the listeners subscribed when it began. *)

(* The listeners a pass still has to go through, iterating over the registry
   itself: the list is the one the callbacks have left *)
PassTargets_LiveRegistry(p, subs, ls, emits) ==
  IF p.phase = "path" THEN PathProxyDispatch(subs, p.path, p.args) ELSE Deliver(ls, emits)

(* The listeners of a pass: those subscribed when the pass began *)
PassTargets(p, subs, ls, emits) == p.targets

BeginChange(n, propertyName, args) ==
  /\ grPc = "idle" /\ pass = NoPass
  /\ propertyName \in Schema[NodeType[n]]
  /\ emitted' = <<>>
  /\ delivered' = <<>>
  /\ pass' = [phase |-> "path", path |-> <<n, propertyName>>, args |-> args, idx |-> 1,
              targets |-> PathProxyDispatch(pathSubs, <<n, propertyName>>, args),
              begun |-> PathProxyDispatch(pathSubs, <<n, propertyName>>, args)]
  /\ ret' = NoCall
  /\ UNCHANGED <<props, document, parent, pathSubs, localSubs, highlighted,
                 highlightedScope, quiet, queryVars>>

(* The event name a listener invoked by t knows its subscription by *)
EventOfInvocation(t) == IF t.via = "path" THEN t.name \o ChangedSuffix ELSE t.name

(* The next listener of the pass is invoked.  Its callback returns at once
   (effect "none"), or calls node.off(l.ctx, eventName, l.handler) or
   node.on(eventName, l.handler, l.ctx) for a listener l, itself or another. *)
InvokeNext(effect, l) ==
  /\ pass.phase \in {"path", "local"}
  /\ pass.idx <= Len(PassTargets(pass, pathSubs, localSubs, emitted))
  /\ LET t == PassTargets(pass, pathSubs, localSubs, emitted)[pass.idx]
         e == EventOfInvocation(t)
     IN /\ delivered' = Append(delivered, t)
        /\ IF effect = "off"
           THEN /\ pathSubs' = OffPathSubs(pathSubs, t.node, l[2], e, l[1])
                /\ localSubs' = [localSubs EXCEPT ![t.node] = EmitterOff(@, l[2], e, l[1])]
                /\ UNCHANGED quiet
           ELSE IF effect = "on"
           THEN /\ TotalSubs + Len(OnPathEntries(t.node, e, l[1], l[2])) < MaxSubs
                /\ TotalLocal < MaxLocal
                /\ pathSubs' = pathSubs \o OnPathEntries(t.node, e, l[1], l[2])
                /\ localSubs' = [localSubs EXCEPT ![t.node] = EmitterOn(@, e, l[1], l[2])]
                /\ quiet' = {q \in quiet : q[2] # l[2]}
           ELSE UNCHANGED <<pathSubs, localSubs, quiet>>
  /\ pass' = [pass EXCEPT !.idx = @ + 1]
  /\ UNCHANGED <<props, document, parent, highlighted, highlightedScope, emitted,
                 queryVars, ret>>

(* The proxy's pass is over: the node emits "<propertyName>:changed" (through
   _onPropertyChange) and the emitter's pass begins; after it the mutation returns *)
EndPass ==
  /\ pass.phase \in {"path", "local"}
  /\ pass.idx > Len(PassTargets(pass, pathSubs, localSubs, emitted))
  /\ IF pass.phase = "path"
     THEN /\ emitted' = <<_onPropertyChange(pass.path[1], pass.path[2], pass.args)>>
          /\ pass' = [pass EXCEPT !.phase = "local", !.idx = 1,
                                  !.targets = Deliver(localSubs, emitted')]
     ELSE /\ pass' = NoPass
          /\ UNCHANGED emitted
  /\ UNCHANGED <<props, document, parent, pathSubs, localSubs, highlighted,
                 highlightedScope, delivered, quiet, queryVars, ret>>

(* A direct subscription on doc.getEventProxy('path'), as a component bound to one
   path makes (FigureComponent's TextProperty on [node.id, "title"]) *)
SubscribePath(n, propertyName, handler, ctx) ==
  /\ grPc = "idle" /\ pass = NoPass
  /\ TotalSubs < MaxSubs
  /\ pathSubs' = PathProxyOn(pathSubs, <<n, propertyName>>, handler, ctx)
  /\ delivered' = <<>>
  /\ emitted' = <<>>
  /\ quiet' = {q \in quiet : q[2] # ctx}
  /\ ret' = NoCall
  /\ UNCHANGED <<props, document, parent, pass, localSubs, highlighted, highlightedScope, queryVars>>

(* setHighlighted without the test of the stored flag *)
setHighlighted_NoGuard(n, flag, scope) ==
  /\ grPc = "idle" /\ pass = NoPass
  /\ highlightedScope' = [highlightedScope EXCEPT ![n] = scope]
  /\ highlighted' = [highlighted EXCEPT ![n] = flag]
  /\ emitted' = <<Emit(n, "highlighted", <<flag>>)>>
  /\ delivered' = Deliver(localSubs, emitted')
  /\ ret' = Returned("setHighlighted", n, <<flag, scope>>, Undefined)
  /\ UNCHANGED <<props, document, parent, pass, pathSubs, localSubs, quiet, queryVars>>

(* setHighlighted that stores the scope before the test of the stored flag *)
setHighlighted_ScopeFirst(n, flag, scope) ==
  /\ grPc = "idle" /\ pass = NoPass
  /\ highlightedScope' = [highlightedScope EXCEPT ![n] = scope]
  /\ IF highlighted[n] # flag
     THEN /\ highlighted' = [highlighted EXCEPT ![n] = flag]
          /\ emitted' = <<Emit(n, "highlighted", <<flag>>)>>
     ELSE /\ UNCHANGED highlighted
          /\ emitted' = <<>>
  /\ delivered' = Deliver(localSubs, emitted')
  /\ ret' = Returned("setHighlighted", n, <<flag, scope>>, Undefined)
  /\ UNCHANGED <<props, document, parent, pass, pathSubs, localSubs, quiet, queryVars>>

(* setHighlighted(highlighted, scope) (lines 190-196) *)
setHighlighted(n, flag, scope) ==
  /\ grPc = "idle" /\ pass = NoPass
  /\ IF highlighted[n] # flag
     THEN /\ highlightedScope' = [highlightedScope EXCEPT ![n] = scope]
          /\ highlighted' = [highlighted EXCEPT ![n] = flag]
          /\ emitted' = <<Emit(n, "highlighted", <<flag>>)>>
     ELSE /\ UNCHANGED <<highlighted, highlightedScope>>
          /\ emitted' = <<>>
  /\ delivered' = Deliver(localSubs, emitted')
  /\ ret' = Returned("setHighlighted", n, <<flag, scope>>, Undefined)
  /\ UNCHANGED <<props, document, parent, pass, pathSubs, localSubs, quiet, queryVars>>

----------------------------------------------------------------------------
(* DocumentNode: structural queries *)

(* Boolean(this.parent) *)
hasParent(n) == parent[n] \notin {Undefined, ""}

(* this.document.get(this.parent) *)
getParent(n) == DocGet(parent[n])

GetParentCall(n) ==
  /\ grPc = "idle" /\ pass = NoPass
  /\ ret' = Returned("getParent", n, <<>>, getParent(n))
  /\ UNCHANGED <<props, document, parent, pass, eventVars, queryVars>>

(* getRoot(): var node = this (line 180) *)
GetRootCall(n) ==
  /\ grPc = "idle" /\ pass = NoPass
  /\ grPc' = "loop"
  /\ grNode' = n
  /\ grVisited' = {}
  /\ ret' = Call("getRoot", n, <<>>, "running", Undefined)
  /\ UNCHANGED <<props, document, parent, pass, eventVars>>

(* getRoot() with an if for the while: one step up at most *)
GetRootStep_OneHop ==
  /\ grPc = "loop"
  /\ ret' = Returned("getRoot", ret.node, <<>>,
                     IF hasParent(grNode) THEN getParent(grNode) ELSE grNode)
  /\ grPc' = "idle"
  /\ UNCHANGED <<grNode, grVisited>>
  /\ UNCHANGED <<props, document, parent, pass, eventVars>>

(* One evaluation of the while test and, when it holds, of the loop body (lines
   181-184).  node.hasParent() on undefined is a TypeError. *)
GetRootStep ==
  /\ grPc = "loop"
  /\ IF grNode = Undefined
     THEN /\ ret' = Thrown("getRoot", ret.node, <<>>, "TypeError")
          /\ grPc' = "idle"
          /\ UNCHANGED <<grNode, grVisited>>
     ELSE IF hasParent(grNode)
     THEN /\ grNode' = getParent(grNode)
          /\ grVisited' = grVisited \cup {grNode}
          /\ UNCHANGED <<grPc, ret>>
     ELSE /\ ret' = Returned("getRoot", ret.node, <<>>, grNode)
          /\ grPc' = "idle"
          /\ UNCHANGED <<grNode, grVisited>>
  /\ UNCHANGED <<props, document, parent, pass, eventVars>>

(* getDocument() (lines 113-115) *)
getDocument(n) == document[n]

GetDocumentCall(n) ==
  /\ grPc = "idle" /\ pass = NoPass
  /\ ret' = Returned("getDocument", n, <<>>, getDocument(n))
  /\ UNCHANGED <<props, document, parent, pass, eventVars, queryVars>>

HasParentCall(n) ==
  /\ grPc = "idle" /\ pass = NoPass
  /\ ret' = Returned("hasParent", n, <<>>, IF hasParent(n) THEN JsTrue ELSE JsFalse)
  /\ UNCHANGED <<props, document, parent, pass, eventVars, queryVars>>

(* hasChildren(), getChildIndex(child), getChildAt(idx), getChildCount(): the
   defaults of a node without children (lines 140-169) *)
ChildQueries == {"hasChildren", "getChildIndex", "getChildAt", "getChildCount"}

childDefault(query) ==
  IF query = "hasChildren" THEN JsFalse
  ELSE IF query = "getChildIndex" THEN "-1"
  ELSE IF query = "getChildAt" THEN JsNull
  ELSE "0"

ChildQueryCall(n, query, arg) ==
  /\ grPc = "idle" /\ pass = NoPass
  /\ ret' = Returned(query, n,
                     IF query \in {"getChildIndex", "getChildAt"} THEN <<arg>> ELSE <<>>,
                     childDefault(query))
  /\ UNCHANGED <<props, document, parent, pass, eventVars, queryVars>>

----------------------------------------------------------------------------
(* DocumentNode: construction *)

(* The kinds the schemas declare: a paragraph's content is text; a todo (the
   example of lines 72-82) has a text and a bool.  A value is given by its kind. *)
KindSchema ==
  [t \in {"paragraph", "todo"} |->
     IF t = "paragraph" THEN [p \in {"content"} |-> "text"]
     ELSE [p \in {"content", "done"} |-> IF p = "content" THEN "text" ELSE "bool"]]

ValueKinds == {"string", "number", "bool"}

(* A value of kind valueKind is a value of the declared kind: text is a string that
   carries annotations *)
KindMatches(declared, valueKind) ==
  IF declared \in {"text", "string", "id"} THEN valueKind = "string"
  ELSE valueKind = declared

(* DataNode.call(this, props): the schema validation of the given properties *)
DataNodeValid(type, given) ==
  \A p \in DOMAIN given : KindMatches(KindSchema[type][p], given[p])

NewIds == {"n4", "n5"}

(* A constructor that does not call DataNode *)
DocumentNode_NoSuper(doc, id, type, given) ==
  /\ grPc = "idle" /\ pass = NoPass
  /\ id \notin DOMAIN props
  /\ props' = [m \in DOMAIN props \cup {id} |->
                 IF m = id THEN [id |-> id, type |-> type] ELSE props[m]]
  /\ document' = [m \in DOMAIN document \cup {id} |-> IF m = id THEN doc ELSE document[m]]
  /\ ret' = Returned("new", id, <<doc, type, given>>, id)
  /\ UNCHANGED <<parent, pass, eventVars, queryVars>>

(* new DocumentNode(doc, props) (lines 94-100): DataNode.call(this, props), which
   throws on a value of the wrong kind, then this.document = doc *)
DocumentNode(doc, id, type, given) ==
  /\ grPc = "idle" /\ pass = NoPass
  /\ id \notin DOMAIN props
  /\ IF DataNodeValid(type, given)
     THEN /\ props' = [m \in DOMAIN props \cup {id} |->
                         IF m = id THEN [id |-> id, type |-> type] ELSE props[m]]
          /\ document' = [m \in DOMAIN document \cup {id} |->
                            IF m = id THEN doc ELSE document[m]]
          /\ ret' = Returned("new", id, <<doc, type, given>>, id)
     ELSE /\ ret' = Thrown("new", id, <<doc, type, given>>, "SchemaValidationError")
          /\ UNCHANGED <<props, document>>
  /\ UNCHANGED <<parent, pass, eventVars, queryVars>>

----------------------------------------------------------------------------
(* DocumentNode: node categories *)

CategoryFlags == {"isBlock", "isText", "isPropertyAnnotation", "isInline",
                  "isContainerAnnotation"}

(* The base type, DocumentNode, and the types that extend it *)
BaseType == "node"
Extends == [t \in {"paragraph", "figure"} |-> BaseType]

(* The flags a type declares itself: DocumentNode declares all five false (lines
   299-327); a paragraph is a block of text, a figure a block. *)
DeclaredFlags ==
  [t \in {BaseType, "paragraph", "figure"} |->
     IF t = BaseType THEN [f \in CategoryFlags |-> JsFalse]
     ELSE IF t = "paragraph" THEN [f \in {"isBlock", "isText"} |-> JsTrue]
     ELSE [f \in {"isBlock"} |-> JsTrue]]

(* constructor.<flag>: the type's own declaration, else the one it inherits *)
RECURSIVE StaticFlag(_, _)
StaticFlag(t, flag) ==
  IF flag \in DOMAIN DeclaredFlags[t] THEN DeclaredFlags[t][flag]
  ELSE StaticFlag(Extends[t], flag)

(* A category query that returns this.<flag>, which is the query method itself *)
categoryQuery_OfInstance(n, flag) == "function"

(* isBlock(), isText(), isPropertyAnnotation(), isInline(),
   isContainerAnnotation(): return this.constructor.<flag> (lines 257-287) *)
categoryQuery(n, flag) == StaticFlag(props[n].type, flag)

CategoryQueryCall(n, flag) ==
  /\ grPc = "idle" /\ pass = NoPass
  /\ ret' = Returned(flag, n, <<>>, categoryQuery(n, flag))
  /\ UNCHANGED <<props, document, parent, pass, eventVars, queryVars>>

----------------------------------------------------------------------------
(* Specifications *)

InitEvents ==
  /\ pathSubs = <<>>
  /\ localSubs = [n \in EventNodes |-> <<>>]
  /\ highlighted = [n \in EventNodes |-> Undefined]
  /\ highlightedScope = [n \in EventNodes |-> Undefined]
  /\ delivered = <<>>
  /\ emitted = <<>>
  /\ quiet = {}

InitQueries ==
  /\ grPc = "idle"
  /\ grNode = Undefined
  /\ grVisited = {}
  /\ ret = NoCall
  /\ pass = NoPass
  /\ hist = NoHist

(* new DocumentNode(doc, props) for each node of the document (lines 94-100) *)
InitNodes ==
  /\ props = [n \in NodeIds |-> [id |-> n, type |-> NodeType[n]]]
  /\ document = [n \in NodeIds |-> TheDocument]

(* A well-formed document: the chain n1 -> n2 -> n3, n3 the root. *)
Init ==
  /\ parent = [n \in NodeIds |-> IF n = "n1" THEN "n2" ELSE IF n = "n2" THEN "n3" ELSE Undefined]
  /\ InitNodes
  /\ InitEvents
  /\ InitQueries

Next ==
  \/ \E n \in EventNodes, e \in EventNames, l \in Listeners :
       on(n, e, l[1], l[2]) /\ UNCHANGED hist
  \/ \E n \in EventNodes, e \in EventNames, l \in Listeners :
       off(n, l[2], e, l[1]) /\ UNCHANGED hist
  \/ \E n \in EventNodes, c \in Contexts : off(n, c, "", Undefined) /\ UNCHANGED hist
  \/ \E n \in EventNodes : \E p \in Schema[NodeType[n]], l \in Listeners :
       SubscribePath(n, p, l[1], l[2]) /\ UNCHANGED hist
  \/ \E n \in EventNodes, p \in {"content", "title", "caption"}, a \in Changes :
       Mutate(n, p, a) /\ UNCHANGED hist

Spec == Init /\ [][Next]_vars

(* The highlight flag and its listeners *)
NextHighlight ==
  \/ \E n \in EventNodes, f \in Flags, s \in Scopes : setHighlighted(n, f, s) /\ UNCHANGED hist
  \/ \E n \in EventNodes, l \in Listeners : on(n, "highlighted", l[1], l[2]) /\ UNCHANGED hist
  \/ \E n \in EventNodes, c \in Contexts : off(n, c, "", Undefined) /\ UNCHANGED hist

SpecHighlight == Init /\ [][NextHighlight]_vars

(* The public surface of a node: subscriptions, the highlight flag, and every
   query, on the document n1 -> n2 -> n3, whose third node is a paragraph or a
   plain DocumentNode *)
SurfaceEvents == {"content:changed", "highlighted"}
SurfaceListeners == {<<"h1", "c1">>}
SurfaceHandlers == {<<<<"content:changed", "h1">>>>,
                    <<<<"highlighted", "h1">>, <<"content:changed", "h2">>>>}

InitSurface ==
  /\ \E t \in {BaseType, "paragraph"} :
        props = [n \in NodeIds |-> [id |-> n, type |-> IF n = "n3" THEN t ELSE NodeType[n]]]
  /\ document = [n \in NodeIds |-> TheDocument]
  /\ parent = [n \in NodeIds |-> IF n = "n1" THEN "n2" ELSE IF n = "n2" THEN "n3" ELSE Undefined]
  /\ InitEvents
  /\ InitQueries

NextSurface ==
  \/ \E e \in SurfaceEvents, l \in SurfaceListeners :
       on("n1", e, l[1], l[2]) /\ UNCHANGED hist
  \/ \E e \in SurfaceEvents, l \in SurfaceListeners :
       off("n1", l[2], e, l[1]) /\ UNCHANGED hist
  \/ \E hs \in SurfaceHandlers : connect("n1", "c2", hs) /\ UNCHANGED hist
  \/ \E c \in Contexts : disconnect("n1", c) /\ UNCHANGED hist
  \/ \E f \in Flags, s \in Scopes : setHighlighted("n1", f, s) /\ UNCHANGED hist
  \/ \E n \in NodeIds : GetDocumentCall(n) /\ UNCHANGED hist
  \/ \E n \in NodeIds : HasParentCall(n) /\ UNCHANGED hist
  \/ \E n \in NodeIds : GetParentCall(n) /\ UNCHANGED hist
  \/ \E n \in NodeIds : GetRootCall(n) /\ UNCHANGED hist
  \/ GetRootStep /\ UNCHANGED hist
  \/ \E n \in NodeIds, q \in ChildQueries : ChildQueryCall(n, q, "0") /\ UNCHANGED hist
  \/ \E n \in NodeIds, f \in CategoryFlags : CategoryQueryCall(n, f) /\ UNCHANGED hist

SpecSurface == InitSurface /\ [][NextSurface]_vars

(* on and off with the call on record: what was called, the subscriptions the
   call found, and whether it removed any.  An off that repeats the arguments of
   the on before it keeps the record of that on; an off that repeats the off before
   it is marked as such and keeps what that first off did. *)
OnOffArgs(n, eventName, handler, ctx) ==
  [node |-> n, event |-> eventName, handler |-> handler, ctx |-> ctx]

HistOf(op, n, eventName, handler, ctx, pathBefore, localBefore, removed) ==
  [op |-> op, args |-> OnOffArgs(n, eventName, handler, ctx),
   pathBefore |-> pathBefore, localBefore |-> localBefore, removed |-> removed]

OnCall(n, eventName, handler, ctx) ==
  /\ on(n, eventName, handler, ctx)
  /\ hist' = HistOf("on", n, eventName, handler, ctx, pathSubs, localSubs, FALSE)

OffCall(n, ctx, eventName, handler) ==
  /\ off(n, ctx, eventName, handler)
  /\ hist' =
       IF hist.op = "on" /\ hist.args = OnOffArgs(n, eventName, handler, ctx)
       THEN [hist EXCEPT !.op = "on;off", !.removed = TRUE]
       ELSE IF hist.op \in {"off", "on;off", "off;off"}
               /\ hist.args = OnOffArgs(n, eventName, handler, ctx)
       THEN HistOf("off;off", n, eventName, handler, ctx, pathSubs, localSubs, hist.removed)
       ELSE HistOf("off", n, eventName, handler, ctx, pathSubs, localSubs,
                   pathSubs' # pathSubs \/ localSubs' # localSubs)

(* Event names and paths of two properties: on n1 (a paragraph) "content" is
   declared and "title" is not, on n2 (a figure) the other way round.  Two
   listeners of different handlers and contexts. *)
RoutingEvents == {"content:changed", "title:changed"}
RoutingProps == {"content", "title"}
RoutingListeners == {<<"h1", "c1">>, <<"h2", "c2">>}

NextRouting ==
  \/ \E n \in EventNodes, e \in RoutingEvents, l \in RoutingListeners :
       OnCall(n, e, l[1], l[2])
  \/ \E n \in EventNodes, e \in RoutingEvents, l \in RoutingListeners :
       OffCall(n, l[2], e, l[1])
  \/ \E n \in EventNodes, c \in Contexts : OffCall(n, c, "", Undefined)
  \/ \E n \in EventNodes, p \in RoutingProps, l \in RoutingListeners :
       SubscribePath(n, p, l[1], l[2]) /\ hist' = NoHist

SpecRouting == Init /\ [][NextRouting]_vars

(* Construction of further nodes, attached to the document or detached, with
   every property of the type given a value of some kind; getDocument on the nodes
   there are *)
NextConstruct ==
  \/ \E doc \in {TheDocument, Undefined}, id \in NewIds, t \in DOMAIN KindSchema :
       \E given \in [DOMAIN KindSchema[t] -> ValueKinds] :
          DocumentNode(doc, id, t, given) /\ UNCHANGED hist
  \/ \E n \in NodeIds \cup NewIds :
       n \in DOMAIN props /\ GetDocumentCall(n) /\ UNCHANGED hist

SpecConstruct == Init /\ [][NextConstruct]_vars

(* Mutations of n1.content whose listeners subscribe and unsubscribe from inside
   their callbacks *)
NextDispatch ==
  \/ \E l \in Listeners : on("n1", "content:changed", l[1], l[2]) /\ UNCHANGED hist
  \/ \E l \in Listeners : SubscribePath("n1", "content", l[1], l[2]) /\ UNCHANGED hist
  \/ \E a \in Changes : BeginChange("n1", "content", a) /\ UNCHANGED hist
  \/ \E l \in Listeners : InvokeNext("none", l) /\ UNCHANGED hist
  \/ \E l \in Listeners : InvokeNext("off", l) /\ UNCHANGED hist
  \/ \E l \in Listeners : InvokeNext("on", l) /\ UNCHANGED hist
  \/ EndPass /\ UNCHANGED hist

SpecDispatch == Init /\ [][NextDispatch]_vars

(* Property change notifications with the call on record *)
ChangeCall(n, propertyName, args) ==
  /\ Mutate(n, propertyName, args)
  /\ hist' = [op |-> "change",
              args |-> [node |-> n, property |-> propertyName, args |-> args]]

NotifyEvents == {"content:changed", "title:changed", "highlighted"}

NextNotify ==
  \/ \E n \in EventNodes, e \in NotifyEvents, l \in Listeners : OnCall(n, e, l[1], l[2])
  \/ \E n \in EventNodes, c \in Contexts : OffCall(n, c, "", Undefined)
  \/ \E n \in EventNodes : \E p \in Schema[NodeType[n]], a \in Changes : ChangeCall(n, p, a)

SpecNotify == Init /\ [][NextNotify]_vars

(* Documents whose parent properties are arbitrary: unset, empty, the id of a
   node, or an id the Document does not hold. *)
InitStructure ==
  /\ parent \in [NodeIds -> NodeIds \cup {Undefined, "", MissingId}]
  /\ InitNodes
  /\ InitEvents
  /\ InitQueries

NextStructure ==
  \/ \E n \in NodeIds : GetParentCall(n) /\ UNCHANGED hist
  \/ \E n \in NodeIds : GetRootCall(n) /\ UNCHANGED hist
  \/ GetRootStep /\ UNCHANGED hist

SpecStructure == InitStructure /\ [][NextStructure]_vars

----------------------------------------------------------------------------
(* Vocabulary of the properties *)

Paths == {<<n, p>> : n \in EventNodes, p \in {"content", "title", "caption"}}
DeclaredPaths == {q \in Paths : q[2] \in Schema[NodeType[q[1]]]}

PathEntry(q, l) == [path |-> q, handler |-> l[1], ctx |-> l[2]]
LocalEntry(e, l) == [event |-> e, handler |-> l[1], ctx |-> l[2]]

(* How often the last operation invoked listener l, over both channels *)
InvocationsOf(l) ==
  Cardinality({i \in DOMAIN delivered :
                 delivered[i].handler = l[1] /\ delivered[i].ctx = l[2]})

(* How often the path proxy invoked listener l for path q in the last operation *)
PathInvocations(q, l) ==
  Cardinality({i \in DOMAIN delivered :
                 /\ delivered[i].via = "path"
                 /\ <<delivered[i].node, delivered[i].name>> = q
                 /\ delivered[i].handler = l[1] /\ delivered[i].ctx = l[2]})

(* How many subscriptions listener l holds on the path proxy for path q *)
SubscriptionsAt(q, l) ==
  Cardinality({i \in DOMAIN pathSubs : pathSubs[i] = PathEntry(q, l)})

(* The last operation was a mutation of the property at path q *)
MutationOf(q) ==
  \E a \in Changes : emitted = <<[node |-> q[1], event |-> q[2] \o ":changed", args |-> a]>>

(* eventName is exactly "<propertyName>:changed" for a property the type of n declares *)
ExactPropertyEvent(n, eventName) ==
  \E p \in Schema[NodeType[n]] : eventName = p \o ":changed"

(* The parent property of a holds an id *)
ParentSet(a) == parent[a] # Undefined /\ parent[a] # ""

(* The ids on the parent chain of the ids in S, S included *)
RECURSIVE ChainFrom(_, _)
ChainFrom(S, k) ==
  IF k = 0 THEN S
  ELSE ChainFrom(S \cup {parent[a] : a \in {b \in S \cap NodeIds : ParentSet(b)}}, k - 1)

ChainIds(n) == ChainFrom({n}, Cardinality(NodeIds))
Resolvable(n) == ChainIds(n) \subseteq NodeIds
Cyclic(n) ==
  \E a \in ChainIds(n) \cap NodeIds :
     ParentSet(a) /\ a \in ChainFrom({parent[a]}, Cardinality(NodeIds))
RootsOf(n) == {a \in ChainIds(n) \cap NodeIds : ~ParentSet(a)}

----------------------------------------------------------------------------
(* C1: after n1.on("content:changed", h) and a separate subscription on the path
   (n1, "content") made on the Document's path proxy, one mutation of n1.content
   invokes h exactly once and the separate path subscriber exactly once. *)
C1_Scenario(l, m) ==
  /\ l # m
  /\ localSubs = [n \in EventNodes |->
                    IF n = "n1" THEN <<LocalEntry("content:changed", l)>> ELSE <<>>]
  /\ Len(pathSubs) = 2
  /\ {pathSubs[1], pathSubs[2]} =
       {PathEntry(<<"n1", "content">>, l), PathEntry(<<"n1", "content">>, m)}
  /\ MutationOf(<<"n1", "content">>)

C1_HandlerOnceAndPathOnce ==
  \A l \in Listeners, m \in Listeners :
     C1_Scenario(l, m) => InvocationsOf(l) = 1 /\ InvocationsOf(m) = 1

(* C2: a listener subscribed on the path proxy for a path is notified by the proxy
   exactly once per subscription for a mutation of that exact path, and not at all
   for a mutation of any other node or any other property. *)
C2_PathExactlyOnce ==
  \A q \in DeclaredPaths :
     MutationOf(q) =>
       \A r \in Paths, l \in Listeners :
          PathInvocations(r, l) = IF r = q THEN SubscriptionsAt(r, l) ELSE 0

(* C2, witness: a mutation of q notified the one subscriber of q once and left a
   subscriber of another path alone. *)
C2_Witness ==
  \E q \in DeclaredPaths, r \in DeclaredPaths, l \in Listeners, m \in Listeners :
     /\ MutationOf(q) /\ r # q /\ l # m
     /\ SubscriptionsAt(q, l) = 1 /\ SubscriptionsAt(r, m) = 1
     /\ PathInvocations(q, l) = 1 /\ InvocationsOf(m) = 0

(* C3, as stated: once node.off(ctx) ran with no event name, and until ctx
   subscribes again, no operation delivers a notification to ctx. *)
C3_NoNotificationAfterOff ==
  \A q \in quiet : \A i \in DOMAIN delivered : delivered[i].ctx # q[2]

(* C3, amended: once n.off(ctx) ran with no event name, and until ctx subscribes
   again, ctx is notified neither by the path proxy nor by node n's own emitter;
   what it still receives comes from its local subscriptions on other nodes. *)
C3_NoPathNorOwnNodeNotificationAfterOff ==
  \A q \in quiet : \A i \in DOMAIN delivered :
     delivered[i].ctx = q[2] => delivered[i].via = "local" /\ delivered[i].node # q[1]

(* C3, witness: after n.off(ctx), a mutation of a property of n notified another
   context. *)
C3_Witness ==
  \E q \in quiet : \E i \in DOMAIN delivered :
     delivered[i].node = q[1] /\ delivered[i].ctx # q[2]

(* C4: when the parent chain contains a cycle, getRoot() fails with
   CyclicStructureError instead of going round: a traversal that has come back to a
   node it already left has ended with that error. *)
C4_CycleIsDetected ==
  (ret.op = "getRoot" /\ grNode \in grVisited) =>
     (ret.kind = "throw" /\ ret.value = "CyclicStructureError")

(* C5: on an acyclic, fully resolvable parent chain getRoot() returns the one
   ancestor that has no parent; on a node without parent, the node itself. *)
C5_RootOfChain ==
  (ret.op = "getRoot" /\ ret.kind # "running"
     /\ Resolvable(ret.node) /\ ~Cyclic(ret.node)) =>
       (ret.kind = "return" /\ RootsOf(ret.node) = {ret.value})

(* C5, witness: getRoot() on n1 of the chain n1 -> n2 -> n3 returned n3. *)
C5_Witness ==
  /\ parent["n1"] = "n2" /\ parent["n2"] = "n3" /\ parent["n3"] = Undefined
  /\ ret = Returned("getRoot", "n1", <<>>, "n3")

(* C6: getParent() on a node whose parent id the Document does not hold fails with
   UnresolvedReferenceError and returns nothing. *)
C6_UnresolvedParentThrows ==
  (ret.op = "getParent" /\ ParentSet(ret.node) /\ parent[ret.node] \notin NodeIds) =>
     (ret.kind = "throw" /\ ret.value = "UnresolvedReferenceError")

(* C7: getRoot() on a node whose parent chain reaches an id the Document does not
   hold ends with UnresolvedReferenceError. *)
C7_GetRootSurfacesUnresolved ==
  (ret.op = "getRoot" /\ ret.kind # "running" /\ ~Resolvable(ret.node)) =>
     (ret.kind = "throw" /\ ret.value = "UnresolvedReferenceError")

(* C8: setHighlighted is idempotent: a call with the node's current flag changes
   nothing and emits nothing; a call with another flag stores it and emits
   "highlighted" once, carrying the new flag (so true, true, false emits on the
   first and the third call only). *)
C8_SetHighlightedIdempotent ==
  [][ret'.op = "setHighlighted" =>
       LET n == ret'.node
           flag == ret'.args[1]
       IN IF highlighted[n] = flag
          THEN /\ emitted' = <<>> /\ delivered' = <<>>
               /\ highlighted' = highlighted /\ highlightedScope' = highlightedScope
          ELSE /\ emitted' = <<[node |-> n, event |-> "highlighted", args |-> <<flag>>]>>
               /\ highlighted'[n] = flag]_vars

(* C8, witness: setHighlighted(true, s) was called on a node already highlighted,
   and emitted nothing. *)
C8_Witness ==
  /\ ret.op = "setHighlighted" /\ ret.args[1] = JsTrue
  /\ highlighted[ret.node] = JsTrue
  /\ emitted = <<>>

(* C9: node.on("<propertyName>:changed", handler, ctx) with propertyName declared
   by the node's type (a step that adds a listener x to node n's own emitter is a
   call n.on(x.event, x.handler, x.ctx)) subscribes (handler, ctx) on the path proxy for exactly the
   path (node.id, propertyName), in addition to the local subscription on the node;
   no other path and no other node's emitter gets a subscription. *)
C9_DeclaredPropertyOnProxy ==
  [][\A n \in EventNodes :
       Len(localSubs'[n]) > Len(localSubs[n]) =>
         LET x == localSubs'[n][Len(localSubs'[n])] IN
         \A p \in Schema[NodeType[n]] :
            x.event = p \o ":changed" =>
              /\ pathSubs' = Append(pathSubs, PathEntry(<<n, p>>, <<x.handler, x.ctx>>))
              /\ localSubs' = [localSubs EXCEPT ![n] = Append(@, x)]]_vars

(* C9, witness: the only subscriptions are those of one n1.on("content:changed"). *)
C9_Witness ==
  \E l \in Listeners :
     /\ pathSubs = <<PathEntry(<<"n1", "content">>, l)>>
     /\ localSubs["n1"] = <<LocalEntry("content:changed", l)>>
     /\ localSubs["n2"] = <<>>

(* C10: node.on(eventName, ...) with an event name that is not exactly
   "<propertyName>:changed" for a declared propertyName leaves the path proxy's
   subscriptions unchanged. *)
C10_OtherNamesLocalOnly ==
  [][\A n \in EventNodes :
       Len(localSubs'[n]) > Len(localSubs[n]) =>
         LET x == localSubs'[n][Len(localSubs'[n])] IN
         ~ExactPropertyEvent(n, x.event) => pathSubs' = pathSubs]_vars

(* C11: off mirrors on: node.on(eventName, handler, ctx) followed at once by
   node.off(ctx, eventName, handler) leaves the path proxy's subscriptions and the
   nodes' own subscriptions as they were before the on call. *)
C11_OnThenOffRestores ==
  hist.op = "on;off" => pathSubs = hist.pathBefore /\ localSubs = hist.localBefore

(* C12: node.off(ctx, eventName, handler) with an event name that is not
   "<propertyName>:changed" for a propertyName the node's type declares does not
   involve the path proxy: the proxy's subscriptions are as the call found them. *)
C12_OffUndeclaredLeavesProxy ==
  (/\ hist.op \in {"off", "off;off"}
   /\ hist.args.event # ""
   /\ ~ExactPropertyEvent(hist.args.node, hist.args.event)) => pathSubs = hist.pathBefore

(* C13: double removal is a no-op: an off that repeats the off before it, with or
   without event name, leaves the path proxy's and the nodes' subscriptions as it
   found them, those of other contexts and other handlers included. *)
C13_SecondOffChangesNothing ==
  hist.op = "off;off" => pathSubs = hist.pathBefore /\ localSubs = hist.localBefore

(* C13, witness: the first off removed a subscription, the second found the
   subscriptions of another context and handler in both registries and left them. *)
C13_Witness ==
  /\ hist.op = "off;off" /\ hist.removed /\ hist.args.event # ""
  /\ \E i \in DOMAIN pathSubs : pathSubs[i].ctx # hist.args.ctx
  /\ \E n \in EventNodes : \E i \in DOMAIN localSubs[n] :
        localSubs[n][i].ctx # hist.args.ctx /\ localSubs[n][i].handler # hist.args.handler

(* C19: n.off(ctx) with no event name removes the path-proxy subscriptions of ctx
   for every path of the document, those of other nodes included, and the local
   subscriptions of ctx on node n only; every other subscription stays, in order. *)
C19_OffContextScope ==
  (hist.op \in {"off", "off;off"} /\ hist.args.event = "") =>
     /\ pathSubs = SelectSeq(hist.pathBefore, LAMBDA x : x.ctx # hist.args.ctx)
     /\ localSubs = [hist.localBefore EXCEPT ![hist.args.node] =
                       SelectSeq(@, LAMBDA x : x.ctx # hist.args.ctx)]

(* C19, witness: n.off(ctx) removed ctx's proxy subscription for a path of the other
   node, kept ctx's local subscription on that other node, and kept another
   context's proxy subscription. *)
C19_Witness ==
  /\ hist.op = "off" /\ hist.args.event = ""
  /\ \E i \in DOMAIN hist.pathBefore :
        hist.pathBefore[i].ctx = hist.args.ctx /\ hist.pathBefore[i].path[1] # hist.args.node
  /\ \E n \in EventNodes \ {hist.args.node} : \E i \in DOMAIN localSubs[n] :
        localSubs[n][i].ctx = hist.args.ctx
  /\ \E i \in DOMAIN pathSubs : pathSubs[i].ctx # hist.args.ctx

(* The invocations the last operation made through the nodes' own emitters *)
LocalDeliveries == SelectSeq(delivered, LAMBDA d : d.via = "local")

(* C18: a property change notification on node n for propertyName with arguments
   a1..ak emits exactly one event, named "<propertyName>:changed", on n; every
   local listener of that name on n is invoked once per subscription with a1..ak,
   unchanged and in order, and no listener of another name or node is invoked. *)
C18_ChangeEmitsOneLocalEvent ==
  hist.op = "change" =>
    LET n == hist.args.node
        name == hist.args.property \o ":changed"
    IN /\ Len(emitted) = 1
       /\ emitted[1].node = n /\ emitted[1].event = name
       /\ emitted[1].args = hist.args.args
       /\ \A i \in DOMAIN LocalDeliveries :
             /\ LocalDeliveries[i].node = n /\ LocalDeliveries[i].name = name
             /\ LocalDeliveries[i].args = hist.args.args
       /\ \A l \in Listeners :
             Cardinality({i \in DOMAIN LocalDeliveries :
                            LocalDeliveries[i].handler = l[1] /\ LocalDeliveries[i].ctx = l[2]})
               = Cardinality({i \in DOMAIN localSubs[n] :
                                localSubs[n][i] = LocalEntry(name, l)})

(* C18, witness: a change of n1.content invoked the local listener of
   "content:changed" with the arguments of the change, and did not invoke the local
   listener n1 has for another event name. *)
C18_Witness ==
  /\ hist.op = "change" /\ hist.args.node = "n1" /\ hist.args.property = "content"
  /\ \E l \in Listeners, m \in Listeners :
        /\ l # m
        /\ localSubs["n1"] = <<LocalEntry("content:changed", l), LocalEntry("highlighted", m)>>
        /\ LocalDeliveries = <<[via |-> "local", node |-> "n1", name |-> "content:changed",
                                handler |-> l[1], ctx |-> l[2], args |-> hist.args.args]>>

(* C20: a setHighlighted(flag, scope) call emits "highlighted" exactly when flag is
   not strictly equal to the stored value (unset on a fresh node, so the first call
   emits for false too), and highlightedScope is the scope of the most recent
   emitting call: an emitting call stores its scope, a call that repeats the current
   flag leaves highlightedScope as it was, whatever its scope. *)
C20_EmitsOnChangeScopeOfLastEmit ==
  [][ret'.op = "setHighlighted" =>
       LET n == ret'.node
           flag == ret'.args[1]
           scope == ret'.args[2]
       IN /\ (emitted' # <<>>) <=> (highlighted[n] # flag)
          /\ highlightedScope'[n] = IF highlighted[n] # flag THEN scope ELSE highlightedScope[n]
          /\ \A m \in EventNodes \ {n} : highlightedScope'[m] = highlightedScope[m]]_vars

(* C20, witness: setHighlighted(true, scopeB) on a node highlighted with scopeA
   emitted nothing and left scopeA. *)
C20_Witness ==
  /\ ret.op = "setHighlighted" /\ ret.args = <<JsTrue, "scopeB">>
  /\ highlighted[ret.node] = JsTrue /\ highlightedScope[ret.node] = "scopeA"
  /\ emitted = <<>>

(* C15: category flags are determined by the node's type alone: in every state the
   instance operations reach, a category query returns the flag the node's type
   declares or inherits, a boolean, false for the base type, and the same for every
   instance of that type. *)
C15_FlagsByTypeOnly ==
  ret.op \in CategoryFlags =>
    /\ ret.kind = "return"
    /\ ret.value \in {JsTrue, JsFalse}
    /\ ret.value = StaticFlag(props[ret.node].type, ret.op)
    /\ props[ret.node].type = BaseType => ret.value = JsFalse
    /\ \A m \in NodeIds :
          props[m].type = props[ret.node].type => categoryQuery(m, ret.op) = ret.value

(* C15, witness: isText() on the paragraph n1, highlighted and with listeners,
   returned true, as it does on the paragraph n3. *)
C15_Witness ==
  /\ ret = Returned("isText", "n1", <<>>, JsTrue)
  /\ props["n3"].type = "paragraph"
  /\ highlighted["n1"] = JsTrue
  /\ localSubs["n1"] # <<>>

(* C17: no operation of the public surface changes a node's id, type, parent or
   document; getDocument() returns the document given at construction; and
   setHighlighted changes the highlight fields only, no subscription. *)
C17_IdentityAndDocumentKept ==
  [][/\ props' = props /\ parent' = parent /\ document' = document
     /\ ret'.op = "getDocument" => ret'.kind = "return" /\ ret'.value = TheDocument
     /\ ret'.op = "setHighlighted" =>
           pathSubs' = pathSubs /\ localSubs' = localSubs]_vars

(* C17, witness: after off(ctx) and setHighlighted on n1, getDocument() on n1
   returned the document. *)
C17_Witness ==
  /\ ret = Returned("getDocument", "n1", <<>>, TheDocument)
  /\ highlighted["n1"] = JsTrue
  /\ <<"n1", "c1">> \in quiet

(* C16: constructing a node with a property value whose kind is not the kind the
   type's schema declares for that property fails with SchemaValidationError, and
   creates no node: the nodes there are, and their documents, are as before. *)
C16_WrongKindFailsNoNode ==
  [][(/\ ret'.op = "new"
      /\ \E p \in DOMAIN ret'.args[3] :
            ret'.args[3][p] # (IF KindSchema[ret'.args[2]][p] = "bool" THEN "bool" ELSE "string"))
     => /\ ret'.kind = "throw" /\ ret'.value = "SchemaValidationError"
        /\ props' = props /\ document' = document]_vars

(* C16, witness: a todo given a number for its bool "done" was refused, and the
   node does not exist. *)
C16_Witness ==
  /\ ret.op = "new" /\ ret.kind = "throw"
  /\ ret.args[2] = "todo" /\ ret.args[3]["content"] = "string" /\ ret.args[3]["done"] = "number"
  /\ ret.node \notin DOMAIN props

(* The invocations the path proxy has made in the pass so far *)
PathDeliveries == SelectSeq(delivered, LAMBDA d : d.via = "path")

(* C14: subscribing and unsubscribing from inside a callback do not corrupt the
   pass in progress: while the proxy's pass runs, the listeners invoked so far are
   the first of those subscribed to the path when the dispatch began, once each and
   in subscription order; when it is over, they are all of them. *)
C14_PassGoesThroughInitialSubscribers ==
  /\ pass.phase = "path" =>
        /\ Len(PathDeliveries) = pass.idx - 1
        /\ \A i \in DOMAIN PathDeliveries :
              i <= Len(pass.begun) /\ PathDeliveries[i] = pass.begun[i]
  /\ pass.phase = "local" => PathDeliveries = pass.begun

(* C14, witness: the first of two subscribers of the path unsubscribed itself in its
   callback, and the second was still invoked, once, after it. *)
C14_Witness ==
  /\ pass.phase = "local"
  /\ Len(pass.begun) = 2 /\ pass.begun[1].ctx # pass.begun[2].ctx
  /\ PathDeliveries = pass.begun
  /\ \A i \in DOMAIN pathSubs : pathSubs[i].ctx # pass.begun[1].ctx
  /\ \E i \in DOMAIN pathSubs : pathSubs[i].ctx = pass.begun[2].ctx

====
